---- MODULE Spec2Model ----
(***************************************************************************)
(* The notebook "data snooping.ipynb": four code cells run by one          *)
(* interpreter.  The interpreter state is the notebook namespace (data,    *)
(* train_data, test_data, cv_scores, ridge_model, ridge_score, p_values,   *)
(* corrected_p_values), numpy's global legacy generator, and the list of   *)
(* executed cells.  A cell is one action; a cell whose names are not yet   *)
(* bound raises NameError on its first use of them and changes nothing.    *)
(*                                                                         *)
(* Numbers.  float64 values are fixed-point integers: Returns and the      *)
(* gaussian draws in units of 1, regression coefficients and scores in     *)
(* units of 1/Milli, p-values in units of 1/PUnit.  The Mersenne Twister   *)
(* is a generator with Modulus states (one state step per variate); only   *)
(* its being a deterministic state machine, seeded by np.random.seed or    *)
(* RandomState(seed), is used.                                             *)
(***************************************************************************)
EXTENDS Integers, Sequences, FiniteSets

VARIABLES
    rng,                 \* state of the global generator np.random
    data,                \* the DataFrame of cell 1, <<>> while unbound
    train_data,          \* DataFrame, <<>> while unbound
    test_data,           \* DataFrame, <<>> while unbound
    cv_scores,           \* array of cell 2, <<>> while unbound
    cv_mean,             \* Some(the printed np.mean(cv_scores)), None before
    cv_fits,             \* the index labels each fit of cell 2 was fitted and scored on
    ridge_model,         \* Some(the fitted Ridge of cell 3), None while unbound
    ridge_score,         \* Some(the score of cell 3), None while unbound
    ridge_rows,          \* Some(the index labels cell 3 passed to fit and to score)
    p_values,            \* array of cell 4, <<>> while unbound
    corrected_p_values,  \* Some(the tuple multipletests returned), None while unbound
    In                   \* the cells that ran to completion so far, in order

vars == <<rng, data, train_data, test_data, cv_scores, cv_mean, cv_fits,
          ridge_model, ridge_score, ridge_rows, p_values, corrected_p_values, In>>

\* an unbound name, and a name bound to v
None == <<>>

Some(v) == <<v>>

\* ---------------------------------------------------------------- bounds
Modulus == 256      \* number of states of the modelled generator
GaussLevels == 3    \* a gaussian draw is one of GaussLevels integers around 0
MaxRuns == 5        \* cell executions in one interpreter session

\* ----------------------------------------------------- program constants
Periods == 100      \* periods=100, randn(100)
GlobalSeed == 0     \* np.random.seed(0)
VolumeScale == 100  \* np.random.randn(100) * 100
TestSizePct == 20   \* test_size=0.2, in percent
SplitSeed == 0      \* random_state=0
CvFolds == 5        \* cv=5
RidgeAlpha == 1     \* Ridge(alpha=1.0)
PLow == 100         \* uniform low 0.01, in units of 1/PUnit
PHigh == 1000       \* uniform high 0.1, in units of 1/PUnit
NTests == 10        \* np.random.uniform(..., 10)
Alpha == 500        \* alpha=0.05, in units of 1/PUnit

Milli == 10 * 100   \* fixed-point unit of coefficients and scores
PUnit == 100 * 100  \* fixed-point unit of p-values: PUnit is 1.0

\* -------------------------------------------------------------- helpers
Min(a, b) == IF a <= b THEN a ELSE b

\* f[lo] + ... + f[hi], by halves
RECURSIVE SumRange(_, _, _)
SumRange(f, lo, hi) ==
    IF lo > hi THEN 0
    ELSE IF lo = hi THEN f[lo]
    ELSE LET mid == (lo + hi) \div 2
         IN  SumRange(f, lo, mid) + SumRange(f, mid + 1, hi)

\* sum of a sequence of numbers
Sum(s) == SumRange(s, 1, Len(s))

\* a sequence given by a rule, as the array of its elements
Array(s) == SubSeq(s, 1, Len(s))

\* the index labels of a DataFrame, as a set
IndexOf(df) == {df[k].Index : k \in 1..Len(df)}

\* df.iloc[ind]: the rows at the 0-based positions ind, in that order
iloc(df, ind) == Array([k \in 1..Len(ind) |-> df[ind[k] + 1]])

\* --------------------------------------------------- the random generator
\* one step of the generator state
rk_random(s) == (141 * s + 47) % Modulus

\* the generator state a seed initialises
SeedState(seed) == (seed * 101 + 19) % Modulus

\* the states after 1..n steps from g
RECURSIVE rk_stream(_, _)
rk_stream(g, n) ==
    IF n = 0 THEN <<>>
    ELSE IF n = 1 THEN <<rk_random(g)>>
    ELSE LET h == n \div 2
             a == rk_stream(g, h)
         IN  a \o rk_stream(a[h], n - h)

\* a standard normal variate from a generator output
rk_gauss(s) == (s * GaussLevels) \div Modulus - (GaussLevels \div 2)

\* an integer in 0..max from a generator output
rk_interval(s, max) == (s * (max + 1)) \div Modulus

\* np.random.seed(seed): the state of the global generator afterwards
np_random_seed_keep(g, seed) == g

np_random_seed(g, seed) == SeedState(seed)

\* np.random.randn(n) on generator state g: the n values and the state afterwards
np_random_randn(g, n) ==
    LET st == rk_stream(g, n)
    IN  [values |-> Array([i \in 1..n |-> rk_gauss(st[i])]),
         g |-> IF n = 0 THEN g ELSE st[n]]

\* np.random.uniform(low, high, n) on generator state g
np_random_uniform(g, low, high, n) ==
    LET st == rk_stream(g, n)
    IN  [values |-> Array([i \in 1..n |-> low + ((high - low) * st[i]) \div Modulus]),
         g |-> IF n = 0 THEN g ELSE st[n]]

\* RandomState.shuffle: for i = hi down to lo, swap x[i] with x[j], j drawn in
\* 0..i from the next generator output; st are the outputs, st[n - i] the one
\* used at position i of an array of n
RECURSIVE shuffle(_, _, _, _, _)
shuffle(x, st, n, hi, lo) ==
    IF hi < lo THEN x
    ELSE IF hi = lo
         THEN LET j == rk_interval(st[n - hi], hi)
              IN  [x EXCEPT ![hi] = x[j], ![j] = x[hi]]
    ELSE LET mid == (lo + hi) \div 2
             upper == shuffle(x, st, n, hi, mid + 1)
         IN  \* the test makes the upper half a value before the lower half starts
             IF upper = x THEN shuffle(x, st, n, mid, lo)
             ELSE shuffle(upper, st, n, mid, lo)

\* RandomState.permutation(n): shuffle of arange(n), positions 0..n-1
permutation(g, n) ==
    shuffle([k \in 0..(n - 1) |-> k], rk_stream(g, n - 1), n, n - 1, 1)

\* the generator state after permutation(n)
permutation_state(g, n) == IF n < 2 THEN g ELSE rk_stream(g, n - 1)[n - 1]

\* ------------------------------------------------------------ cell 1
\* pd.DataFrame({'Date': dates, 'Returns': returns, 'Volume': volume})
DataFrame(returns, volume) ==
    Array([k \in 1..Len(returns) |->
        [Index |-> k - 1, Date |-> k - 1, Returns |-> returns[k], Volume |-> volume[k]]])

\* train_test_split with random_state=None: the shuffle draws from the global generator
train_test_split_global(df, test_pct, random_state, g) ==
    LET n == Len(df)
        n_test == (test_pct * n + 99) \div 100
        n_train == n - n_test
        perm == permutation(g, n)
    IN  [train |-> iloc(df, Array([k \in 1..n_train |-> perm[n_test + k - 1]])),
         test |-> iloc(df, Array([k \in 1..n_test |-> perm[k - 1]])),
         g |-> permutation_state(g, n)]

\* train_test_split with the train slice starting one position early
train_test_split_overlap(df, test_pct, random_state, g) ==
    LET n == Len(df)
        n_test == (test_pct * n + 99) \div 100
        n_train == n - n_test
        perm == permutation(SeedState(random_state), n)
    IN  [train |-> iloc(df, Array([k \in 1..n_train |-> perm[n_test + k - 2]])),
         test |-> iloc(df, Array([k \in 1..n_test |-> perm[k - 1]])),
         g |-> g]

\* train_test_split(df, test_size, random_state): ShuffleSplit's one split.
\* n_test = ceil(test_size * n), n_train = n - n_test; the permutation comes from
\* a generator of its own, RandomState(random_state); the global generator g is
\* returned as it was.
train_test_split(df, test_pct, random_state, g) ==
    LET n == Len(df)
        n_test == (test_pct * n + 99) \div 100
        n_train == n - n_test
        perm == permutation(SeedState(random_state), n)
    IN  [train |-> iloc(df, Array([k \in 1..n_train |-> perm[n_test + k - 1]])),
         test |-> iloc(df, Array([k \in 1..n_test |-> perm[k - 1]])),
         g |-> g]

\* df[[c]] / df[c]: one column with the frame's index
Column(df, c) == Array([k \in 1..Len(df) |-> [Index |-> df[k].Index, value |-> df[k][c]]])

\* the namespace cell 1 binds, run on global generator state g
Cell1(g) ==
    LET g0 == np_random_seed(g, GlobalSeed)
        r == np_random_randn(g0, Periods)
        v == np_random_randn(r.g, Periods)
        returns == r.values
        volume == Array([i \in 1..Periods |-> v.values[i] * VolumeScale])
        df == DataFrame(returns, volume)
        sp == train_test_split(df, TestSizePct, SplitSeed, v.g)
    IN  [data |-> df, train_data |-> sp.train, test_data |-> sp.test, g |-> sp.g]

\* cell 1: seed, draw returns and volume, build the table, split it
GenerateAndSplit ==
    /\ Len(In) < MaxRuns
    /\ \E ns \in {Cell1(rng)} :
           /\ data' = ns.data
           /\ train_data' = ns.train_data
           /\ test_data' = ns.test_data
           /\ rng' = ns.g
    /\ In' = Append(In, 1)
    /\ UNCHANGED <<cv_scores, cv_mean, cv_fits, ridge_model, ridge_score, ridge_rows,
                   p_values, corrected_p_values>>

\* ------------------------------------------------------------ regression
\* the values of a column, and its index labels
Values(col) == Array([k \in 1..Len(col) |-> col[k].value])

Labels(col) == {col[k].Index : k \in 1..Len(col)}

\* positional selection of a column
take(col, ind) == Array([k \in 1..Len(ind) |-> col[ind[k] + 1]])

\* Least squares with an intercept and an L2 penalty alpha on the slope, one
\* feature: coef = Sxy / (Sxx + alpha) on the centred data, that is
\* (n*Sum(xy) - Sum(x)Sum(y)) / (n*Sum(xx) - Sum(x)^2 + n*alpha);
\* a constant feature with alpha = 0 gets the minimum-norm slope 0.
\* coef_ and intercept_ are in units of 1/Milli.
fit(X, y, alpha) ==
    LET x == Values(X)
        t == Values(y)
        n == Len(x)
        Sx == Sum(x)
        Sy == Sum(t)
        Sxy == SumRange([k \in 1..n |-> x[k] * t[k]], 1, n)
        Sxx == SumRange([k \in 1..n |-> x[k] * x[k]], 1, n)
        B == n * Sxy - Sx * Sy
        D == n * Sxx - Sx * Sx + n * alpha
        coef == IF D = 0 THEN 0 ELSE (B * Milli) \div D
    IN  [coef_ |-> coef, intercept_ |-> (Milli * Sy - coef * Sx) \div n]

\* RegressorMixin.score: R^2 = 1 - ss_res / ss_tot of the predictions on X
\* against y, in units of 1/Milli; a constant y scores 1 when predicted exactly
\* and 0 otherwise (r2_score)
score(m, X, y) ==
    LET x == Values(X)
        t == Values(y)
        n == Len(x)
        mean == (Milli * Sum(t)) \div n
        res == Array([k \in 1..n |-> Milli * t[k] - (m.intercept_ + m.coef_ * x[k])])
        dev == Array([k \in 1..n |-> Milli * t[k] - mean])
        ss_res == SumRange([k \in 1..n |-> res[k] * res[k]], 1, n)
        ss_tot == SumRange([k \in 1..n |-> dev[k] * dev[k]], 1, n)
    IN  IF ss_tot = 0 THEN (IF ss_res = 0 THEN Milli ELSE 0)
        ELSE Milli - ss_res \div ((ss_tot + Milli - 1) \div Milli)

\* ------------------------------------------------------------ cell 2
\* KFold(n_splits).split on n samples, shuffle=False: fold f (1..n_splits) tests
\* fold_sizes[f] consecutive positions, the first n % n_splits folds one more
\* than n // n_splits, and trains on all the others
KFold(n, n_splits) ==
    LET start(f) == (f - 1) * (n \div n_splits) + Min(f - 1, n % n_splits)
        size(f) == n \div n_splits + (IF f <= n % n_splits THEN 1 ELSE 0)
    IN  [f \in 1..n_splits |->
            [test |-> Array([j \in 1..size(f) |-> start(f) + j - 1]),
             train |-> Array([j \in 1..(n - size(f)) |->
                         IF j - 1 < start(f) THEN j - 1 ELSE j - 1 + size(f)])]]

\* cross_val_score(LinearRegression(), X, y, cv): for each fold of KFold(cv), a
\* fresh model fitted on the fold's train rows and scored on its test rows
cross_val_score(X, y, cv) ==
    LET folds == KFold(Len(X), cv)
    IN  Array([f \in 1..cv |->
            LET Xtr == take(X, folds[f].train)
                ytr == take(y, folds[f].train)
                Xte == take(X, folds[f].test)
                yte == take(y, folds[f].test)
            IN  [score |-> score(fit(Xtr, ytr, 0), Xte, yte),
                 fit_rows |-> Labels(Xtr),
                 val_rows |-> Labels(Xte)]])

\* np.sum in place of np.mean
np_sum(a) == Sum(a)

\* np.mean of an array, in the array's unit
np_mean(a) == Sum(a) \div Len(a)

\* cross-validation on the training subset only
CvFrameTrain == train_data

\* the frame cell 2 cross-validates on
CvFrame == data

\* the namespace cell 2 binds
Cell2 ==
    LET X == Column(CvFrame, "Volume")
        y == Column(CvFrame, "Returns")
        fits == cross_val_score(X, y, CvFolds)
        scores == Array([f \in 1..Len(fits) |-> fits[f].score])
    IN  [cv_scores |-> scores,
         cv_mean |-> np_mean(scores),
         cv_fits |-> Array([f \in 1..Len(fits) |->
                        [fit_rows |-> fits[f].fit_rows, val_rows |-> fits[f].val_rows]])]

\* cell 2: 5-fold cross-validation of a linear model on the whole table.
\* data unbound: NameError at X = data[['Volume']].
CrossValidate ==
    /\ Len(In) < MaxRuns
    /\ data # <<>>
    /\ \E ns \in {Cell2} :
           /\ cv_scores' = ns.cv_scores
           /\ cv_mean' = Some(ns.cv_mean)
           /\ cv_fits' = ns.cv_fits
    /\ In' = Append(In, 2)
    /\ UNCHANGED <<rng, data, train_data, test_data, ridge_model, ridge_score,
                   ridge_rows, p_values, corrected_p_values>>

\* ------------------------------------------------------------ cell 3
\* a ridge fit on the whole table
RidgeFitFrameAll == data

\* the frames cell 3 fits and scores on
RidgeFitFrame == train_data

RidgeScoreFrame == test_data

\* the namespace cell 3 binds
Cell3 ==
    LET Xtr == Column(RidgeFitFrame, "Volume")
        ytr == Column(RidgeFitFrame, "Returns")
        Xte == Column(RidgeScoreFrame, "Volume")
        yte == Column(RidgeScoreFrame, "Returns")
        m == fit(Xtr, ytr, RidgeAlpha)
    IN  [ridge_model |-> m,
         ridge_score |-> score(m, Xte, yte),
         ridge_rows |-> [fit |-> Labels(Xtr), score |-> Labels(Xte)]]

\* cell 3: ridge fit on train_data, score on test_data.
\* train_data unbound: NameError at ridge_model.fit(train_data[['Volume']], ...).
RidgeFit ==
    /\ Len(In) < MaxRuns
    /\ train_data # <<>>
    /\ \E ns \in {Cell3} :
           /\ ridge_model' = Some(ns.ridge_model)
           /\ ridge_score' = Some(ns.ridge_score)
           /\ ridge_rows' = Some(ns.ridge_rows)
    /\ In' = Append(In, 3)
    /\ UNCHANGED <<rng, data, train_data, test_data, cv_scores, cv_mean, cv_fits,
                   p_values, corrected_p_values>>

\* ------------------------------------------------------------ cell 4
\* a correction that divides by the number of tests
multipletests_divide(pvals, alpha) ==
    LET ntests == Len(pvals)
        alphacBonf == alpha \div ntests
    IN  [reject |-> Array([i \in 1..ntests |-> pvals[i] <= alphacBonf]),
         pvals_corrected |-> Array([i \in 1..ntests |-> Min(pvals[i] \div ntests, PUnit)]),
         alphacBonf |-> alphacBonf]

\* a correction that rejects against the uncorrected level alpha
multipletests_uncorrected(pvals, alpha) ==
    LET ntests == Len(pvals)
    IN  [reject |-> Array([i \in 1..ntests |-> pvals[i] <= alpha]),
         pvals_corrected |-> Array([i \in 1..ntests |-> Min(pvals[i] * ntests, PUnit)]),
         alphacBonf |-> alpha \div ntests]

\* multipletests(pvals, alpha, method='bonferroni'): (reject, pvals_corrected,
\* alphacSidak, alphacBonf) with alphacBonf = alpha / ntests,
\* reject = pvals <= alphacBonf, pvals_corrected = pvals * ntests cut at 1.
\* alphacSidak = 1 - (1 - alpha)^(1/ntests) is not a fixed-point value and is left out.
multipletests(pvals, alpha) ==
    LET ntests == Len(pvals)
        alphacBonf == alpha \div ntests
    IN  [reject |-> Array([i \in 1..ntests |-> pvals[i] <= alphacBonf]),
         pvals_corrected |-> Array([i \in 1..ntests |-> Min(pvals[i] * ntests, PUnit)]),
         alphacBonf |-> alphacBonf]

\* cell 4 with np.random.seed(0) ahead of the draw
Cell4Seeded(g) ==
    LET u == np_random_uniform(SeedState(GlobalSeed), PLow, PHigh, NTests)
    IN  [p_values |-> u.values,
         corrected_p_values |-> multipletests(u.values, Alpha),
         g |-> u.g]

\* the namespace cell 4 binds, run on global generator state g
Cell4(g) ==
    LET u == np_random_uniform(g, PLow, PHigh, NTests)
    IN  [p_values |-> u.values,
         corrected_p_values |-> multipletests(u.values, Alpha),
         g |-> u.g]

\* cell 4: draw 10 p-values from the global generator, correct them.
\* np unbound (cell 1 never ran): NameError at np.random.uniform.
Bonferroni ==
    /\ Len(In) < MaxRuns
    /\ data # <<>>
    /\ \E ns \in {Cell4(rng)} :
           /\ p_values' = ns.p_values
           /\ corrected_p_values' = Some(ns.corrected_p_values)
           /\ rng' = ns.g
    /\ In' = Append(In, 4)
    /\ UNCHANGED <<data, train_data, test_data, cv_scores, cv_mean, cv_fits,
                   ridge_model, ridge_score, ridge_rows>>

\* ------------------------------------------------------- the interpreter
\* a fresh interpreter: nothing bound, the global generator seeded from the
\* operating system's entropy
Init ==
    /\ rng \in 0..(Modulus - 1)
    /\ data = <<>>
    /\ train_data = <<>>
    /\ test_data = <<>>
    /\ cv_scores = <<>>
    /\ cv_mean = None
    /\ cv_fits = <<>>
    /\ ridge_model = None
    /\ ridge_score = None
    /\ ridge_rows = None
    /\ p_values = <<>>
    /\ corrected_p_values = None
    /\ In = <<>>

Next == GenerateAndSplit \/ CrossValidate \/ RidgeFit \/ Bonferroni

Spec == Init /\ [][Next]_vars

\* ------------------------------------------- the correction on given p-values
\* p-values on a grid: one below the sampled range, and the range's two ends
PGrid == {PLow \div 2, PLow, PHigh}

\* multipletests applied to ten given p-values
InitBonferroni ==
    /\ p_values \in [1..NTests -> PGrid]
    /\ corrected_p_values = None
    /\ rng = SeedState(GlobalSeed)
    /\ data = <<>>
    /\ train_data = <<>>
    /\ test_data = <<>>
    /\ cv_scores = <<>>
    /\ cv_mean = None
    /\ cv_fits = <<>>
    /\ ridge_model = None
    /\ ridge_score = None
    /\ ridge_rows = None
    /\ In = <<>>

ApplyCorrection ==
    /\ corrected_p_values = None
    /\ corrected_p_values' = Some(multipletests(p_values, Alpha))
    /\ UNCHANGED <<rng, data, train_data, test_data, cv_scores, cv_mean, cv_fits,
                   ridge_model, ridge_score, ridge_rows, p_values, In>>

SpecBonferroni == InitBonferroni /\ [][ApplyCorrection]_vars

\* ------------------------------------------------------------- properties
\* how many times cell c has run
Runs(c) == Cardinality({i \in 1..Len(In) : In[i] = c})

\* cell c ran, then cell d
RanBefore(c, d) == \E i, j \in 1..Len(In) : i < j /\ In[i] = c /\ In[j] = d

\* the two draws of cell 1 from a generator seeded with GlobalSeed
SeededReturns == np_random_randn(SeedState(GlobalSeed), Periods)

SeededVolume == np_random_randn(SeededReturns.g, Periods)

\* the 10 uniform draws that follow k earlier runs of cell 4
SeededPValues(k) ==
    LET g == IF k = 0 THEN SeededVolume.g
             ELSE rk_stream(SeededVolume.g, NTests * k)[NTests * k]
    IN  np_random_uniform(g, PLow, PHigh, NTests).values

\* the split of Periods rows by a generator seeded with SplitSeed
SeededPermutation == permutation(SeedState(SplitSeed), Periods)

\* C1: after the partition step train_data and test_data share no row index,
\* every row index of the table is in one of them, and they hold 80 and 20 rows.
C1_Partition ==
    data # <<>> =>
        /\ IndexOf(train_data) \cap IndexOf(test_data) = {}
        /\ IndexOf(train_data) \cup IndexOf(test_data) = IndexOf(data)
        /\ Len(train_data) = 80 /\ Cardinality(IndexOf(train_data)) = 80
        /\ Len(test_data) = 20 /\ Cardinality(IndexOf(test_data)) = 20
        /\ Len(train_data) + Len(test_data) = Len(data)
        /\ Len(data) = 100

C1_Witness == In # <<>> /\ In[Len(In)] = 1 /\ Len(test_data) = 20

\* C2 as claimed: no step's result depends on a variable another step writes:
\* the scores are those of the table, and the p-values after the k-th run of the
\* Bonferroni cell are those of its k-th run whatever other cells ran in between.
C2_Original ==
    /\ cv_scores # <<>> => cv_scores = Cell2.cv_scores
    /\ ridge_score # None => ridge_score = Some(Cell3.ridge_score)
    /\ p_values # <<>> => p_values = SeededPValues(Runs(4) - 1)

\* C2 as amended: the cross-validation and ridge results are those of the table
\* and its subsets; the Bonferroni cell reads and writes the global generator,
\* which cell 1 writes too: its p-values are the next 10 uniform draws from the
\* generator state the cell starts in, it leaves the generator 10 draws on, and
\* only the Bonferroni cell changes p_values.
C2_Amended ==
    /\ [](cv_scores # <<>> => cv_scores = Cell2.cv_scores)
    /\ [](ridge_score # None => ridge_score = Some(Cell3.ridge_score))
    /\ [][IF In' = Append(In, 4)
          THEN /\ p_values' = np_random_uniform(rng, PLow, PHigh, NTests).values
               /\ rng' = np_random_uniform(rng, PLow, PHigh, NTests).g
          ELSE p_values' = p_values]_vars

C2_Witness ==
    /\ In = <<1, 4, 1, 4>>
    /\ p_values = SeededPValues(0)
    /\ p_values # SeededPValues(1)

\* C3: whenever the table is bound, its Returns and Volume columns are the 100
\* and 100 draws of a generator seeded with 0, whatever the generator's state
\* was when cell 1 ran.
C3_Regenerate ==
    data # <<>> =>
        /\ Len(data) = 100
        /\ Values(Column(data, "Returns")) = SeededReturns.values
        /\ Values(Column(data, "Volume")) =
               [i \in 1..Periods |-> SeededVolume.values[i] * VolumeScale]

C3_Witness ==
    /\ RanBefore(4, 1)
    /\ In[Len(In)] = 1
    /\ Values(Column(data, "Returns")) = SeededReturns.values

\* C4: the Bonferroni step returns 10 corrected values for its 10 p-values, each
\* at least the p-value at its position.
C4_Corrected ==
    corrected_p_values # None =>
        /\ Len(p_values) = 10
        /\ Len(corrected_p_values[1].pvals_corrected) = 10
        /\ \A i \in 1..10 : corrected_p_values[1].pvals_corrected[i] >= p_values[i]

C4_Witness ==
    /\ corrected_p_values # None
    /\ \E i \in 1..10 : corrected_p_values[1].pvals_corrected[i] > p_values[i]

\* C5: cross-validation returns 5 scores, one per fold, and the reported mean is
\* the mean of those 5 scores.
C5_Scores ==
    cv_scores # <<>> =>
        /\ Len(cv_scores) = 5
        /\ Len(cv_fits) = 5
        /\ cv_mean # None
        /\ cv_mean[1] = (cv_scores[1] + cv_scores[2] + cv_scores[3]
                           + cv_scores[4] + cv_scores[5]) \div 5

C5_Witness == Len(cv_scores) = 5 /\ cv_mean # None /\ cv_mean[1] # cv_scores[1]

\* C6: the row indices of train_data and of test_data are those a generator
\* seeded with random_state picks for 100 rows, at every execution of cell 1.
C6_SameSplit ==
    data # <<>> =>
        /\ IndexOf(test_data) = {SeededPermutation[k] : k \in 0..19}
        /\ IndexOf(train_data) = {SeededPermutation[k] : k \in 20..99}

C6_Witness ==
    /\ Runs(1) >= 2
    /\ RanBefore(4, 1)
    /\ IndexOf(test_data) = {SeededPermutation[k] : k \in 0..19}

\* C7: the ridge model is fitted on the rows of train_data only and scored on
\* the rows of test_data only; no row is used for both.
C7_Ridge ==
    ridge_rows # None =>
        /\ ridge_rows[1].fit = IndexOf(train_data)
        /\ ridge_rows[1].score = IndexOf(test_data)
        /\ ridge_rows[1].fit \cap ridge_rows[1].score = {}
        /\ ridge_rows[1].fit \cap IndexOf(test_data) = {}
        /\ ridge_model[1] = fit(Column(train_data, "Volume"),
                                Column(train_data, "Returns"), RidgeAlpha)
        /\ ridge_score[1] = score(ridge_model[1], Column(test_data, "Volume"),
                                  Column(test_data, "Returns"))

C7_Witness ==
    /\ ridge_rows # None
    /\ Cardinality(ridge_rows[1].fit) = 80
    /\ Cardinality(ridge_rows[1].score) = 20

\* C8: the 5 validation folds partition the 100 rows of the table, test_data's
\* rows included: each row is validated in exactly one fit, each fold has 20
\* rows, and each fit's 80 rows are disjoint from its validation rows.
C8_Folds ==
    cv_fits # <<>> =>
        /\ \A r \in IndexOf(data) :
               Cardinality({f \in 1..Len(cv_fits) : r \in cv_fits[f].val_rows}) = 1
        /\ IndexOf(test_data) \subseteq UNION {cv_fits[f].val_rows : f \in 1..Len(cv_fits)}
        /\ \A f \in 1..Len(cv_fits) :
               /\ Cardinality(cv_fits[f].val_rows) = 20
               /\ Cardinality(cv_fits[f].fit_rows) = 80
               /\ cv_fits[f].fit_rows \cap cv_fits[f].val_rows = {}
               /\ cv_fits[f].fit_rows \cup cv_fits[f].val_rows = IndexOf(data)

C8_Witness ==
    /\ Len(cv_fits) = 5
    /\ \E f \in 1..5 : cv_fits[f].val_rows \cap IndexOf(test_data) # {}
    /\ \E f \in 1..5 : cv_fits[f].fit_rows \cap IndexOf(test_data) # {}

\* C9: for 10 p-values in [0.01, 0.1] the correction with alpha = 0.05 gives
\* min(1, 10 * p) at every position, a value in [0.1, 1] above 0.05, and rejects
\* nothing.
C9_NoReject ==
    (corrected_p_values # None /\ \A i \in 1..10 : p_values[i] \in PLow..PHigh) =>
        \A i \in 1..10 :
            /\ corrected_p_values[1].pvals_corrected[i] = Min(PUnit, 10 * p_values[i])
            /\ corrected_p_values[1].pvals_corrected[i] \in 1000..PUnit
            /\ corrected_p_values[1].pvals_corrected[i] > Alpha
            /\ corrected_p_values[1].reject[i] = FALSE

C9_Witness ==
    /\ corrected_p_values # None
    /\ \A i \in 1..10 : p_values[i] \in PLow..PHigh
    /\ \E i \in 1..10 : p_values[i] = PLow
    /\ \E i \in 1..10 : corrected_p_values[1].pvals_corrected[i] = PUnit

\* C10: the four cells run once each, in order, from a fresh interpreter: the
\* p-values are the 10 uniform draws that follow the seed and the two randn(100)
\* draws, whatever state the generator started in.
C10_InOrder ==
    In = <<1, 2, 3, 4>> =>
        /\ p_values = SeededPValues(0)
        /\ corrected_p_values[1].pvals_corrected =
               [i \in 1..10 |-> Min(PUnit, 10 * SeededPValues(0)[i])]

C10_Witness == In = <<1, 2, 3, 4>> /\ Len(p_values) = 10 /\ cv_scores # <<>> /\ ridge_rows # None
====
